---------------------------- MODULE Spec2Model ----------------------------
(***************************************************************************)
(* Model of src/web/static/js/game.js: the browser client of the chat      *)
(* adventure.  The state is the module-global gameState, the properties    *)
(* of the DOM elements the script reads and writes (disabled, value,       *)
(* style.display, textContent, children), the fetches in flight and the    *)
(* pending setTimeout callbacks.  Every handler, and every continuation    *)
(* after an await, is one action.                                          *)
(*                                                                         *)
(* Conventions.  An optional JavaScript value (undefined/null or a value)  *)
(* is a sequence of length 0 or 1: None is <<>>, Some(v) is <<v>>.  A text *)
(* is a sequence of string pieces; white space is the pieces " " and "\n". *)
(* The Korean literals of the source are written in ASCII:                 *)
(*   "resources: " = line 126, "health: "/"mental: "/"money: " = lines     *)
(*   117/120/123, "gadgets: " = line 139, " acquire (+" = line 133,        *)
(*   " lose (-" = line 135, "none" = line 196, DefaultReason = line 155,   *)
(*   GenericFailure = line 171.                                            *)
(* The platform delivers no click to a disabled button and no key press to *)
(* a disabled input, which is what guards sendChoice; the start handler's  *)
(* own test of startBtn.disabled (line 20) is modelled as written.  The    *)
(* markup is not part of the source, so no handler is assumed unreachable  *)
(* because of the view that is shown.  Timers fire exactly when due.       *)
(***************************************************************************)
EXTENDS Integers, Sequences, FiniteSets, TLC

VARIABLES
    gameState,          \* [sessionId, currentEncounter, state], each optional
    startBtnDisabled,   \* startBtn.disabled
    chatInputDisabled,  \* chatInput.disabled
    chatInputValue,     \* chatInput.value, a text
    sendBtnDisabled,    \* sendBtn.disabled
    welcomeScreen,      \* welcomeScreen.style.display
    gameScreen,         \* gameScreen.style.display
    gameOverScreen,     \* gameOverScreen.style.display
    gameOverReason,     \* textContent of #game-over-reason
    display,            \* the resource icons, labels and the gadget list
    chatMessages,       \* the children of #chat-messages, in order
    wraps,              \* every grouping container created, attached or not
    timers,             \* pending setTimeout callbacks, in creation order
    startFetches,       \* number of start requests in flight
    choiceFetches,      \* the choice requests in flight
    nextSessionId,      \* the server's next fresh session id
    lastEvent           \* the handler that ran last, with its input

vars == <<gameState, startBtnDisabled, chatInputDisabled, chatInputValue,
          sendBtnDisabled, welcomeScreen, gameScreen, gameOverScreen,
          gameOverReason, display, chatMessages, wraps, timers,
          startFetches, choiceFetches, nextSessionId, lastEvent>>

-----------------------------------------------------------------------------
(* Bounds of the model. *)

MaxSessions == 2
MaxWraps == 2
MaxChat == 4
MaxFetches == 2
MaxItems == 3

-----------------------------------------------------------------------------
(* Optional values and texts. *)

None == <<>>
Some(v) == <<v>>
IsSome(o) == o # <<>>
Get(o) == o[1]

IsSpace(c) == c \in {" ", "\n"}

RECURSIVE TrimStart(_)
TrimStart(t) ==
    IF t = <<>> THEN <<>>
    ELSE IF IsSpace(Head(t)) THEN TrimStart(Tail(t)) ELSE t

RECURSIVE TrimEnd(_)
TrimEnd(t) ==
    IF t = <<>> THEN <<>>
    ELSE IF IsSpace(t[Len(t)]) THEN TrimEnd(SubSeq(t, 1, Len(t) - 1)) ELSE t

\* String.prototype.trim
Trim(t) == TrimEnd(TrimStart(t))

\* Array.prototype.join
RECURSIVE Join(_, _)
Join(parts, sep) ==
    IF parts = <<>> THEN <<>>
    ELSE IF Len(parts) = 1 THEN <<parts[1]>>
    ELSE <<parts[1], sep>> \o Join(Tail(parts), sep)

-----------------------------------------------------------------------------
(* Program constants. *)

MaxResource == 3
DefaultHealth == 3
DefaultMental == 3
DefaultMoney == 0
IconCount == 3
StaggerMs == 500

DefaultReason == "game has ended"
GenericFailure == "an error occurred, try again"

-----------------------------------------------------------------------------
(* addMessage: one child of #chat-messages.  A grouping container is a      *)
(* child too; it names its wrap, a message names none (0).                  *)

Message(text, type) == [className |-> "message " \o type, text |-> text, wrap |-> 0]

Group(id) == [className |-> "message-group encounter", text |-> <<>>, wrap |-> id]

AddMessage(chat, text, type) == Append(chat, Message(text, type))

-----------------------------------------------------------------------------
(* updateGameState and updateIconGroup. *)

Min2(a, b) == IF a < b THEN a ELSE b
Max2(a, b) == IF a > b THEN a ELSE b

\* resources.x ?? dflt
OrDefault(o, dflt) == IF IsSome(o) THEN Get(o) ELSE dflt

\* faulty variant: the clamp without its floor at 0
ClampNoFloor(v) == Min2(MaxResource, v)

\* Math.min(3, Math.max(0, v))
Clamp(v) == Min2(MaxResource, Max2(0, v))

\* spans.forEach((s, i) => s.classList.toggle('empty', i >= value)):
\* the k-th of the three spans (i = k - 1) carries class 'empty' or not.
UpdateIconGroup(value) == [k \in 1..IconCount |-> (k - 1) >= value]

Label(value) == ToString(value) \o "/" \o ToString(MaxResource)

NoResources == [health |-> None, mental |-> None, money |-> None]

UpdateGameState(disp, state) ==
    IF ~IsSome(state) THEN disp
    ELSE LET resources == IF IsSome(Get(state).resources)
                          THEN Get(Get(state).resources) ELSE NoResources
             health == Clamp(OrDefault(resources.health, DefaultHealth))
             mental == Clamp(OrDefault(resources.mental, DefaultMental))
             money  == Clamp(OrDefault(resources.money, DefaultMoney))
             gadgets == IF IsSome(Get(state).gadgets)
                        THEN Get(Get(state).gadgets) ELSE <<>>
             joined == Join(gadgets, ", ")
         IN  [healthIcons |-> UpdateIconGroup(health),
              mentalIcons |-> UpdateIconGroup(mental),
              moneyIcons  |-> UpdateIconGroup(money),
              healthValue |-> Label(health),
              mentalValue |-> Label(mental),
              moneyValue  |-> Label(money),
              gadgetsList |-> IF joined = <<>> THEN <<"none">> ELSE joined]

\* The display before the first updateGameState: no span is marked empty
\* and the labels hold no text the script wrote.
InitialDisplay ==
    [healthIcons |-> [k \in 1..IconCount |-> FALSE],
     mentalIcons |-> [k \in 1..IconCount |-> FALSE],
     moneyIcons  |-> [k \in 1..IconCount |-> FALSE],
     healthValue |-> "", mentalValue |-> "", moneyValue |-> "",
     gadgetsList |-> <<>>]

-----------------------------------------------------------------------------
(* The result entry of sendChoice (lines 111-146). *)

\* `${label}: ${v > 0 ? '+' : ''}${v}`
Signed(label, v) == label \o (IF v > 0 THEN "+" ELSE "") \o ToString(v)

\* faulty variant: a zero delta is listed too
ChangeKeepZero(label, o) == IF IsSome(o) THEN <<Signed(label, Get(o))>> ELSE <<>>

\* if (resources.x !== undefined && resources.x !== 0) changes.push(...)
Change(label, o) ==
    IF IsSome(o) /\ Get(o) # 0 THEN <<Signed(label, Get(o))>> ELSE <<>>

ResourceChanges(resources) ==
    Change("health: ", resources.health)
        \o Change("mental: ", resources.mental)
        \o Change("money: ", resources.money)

\* the callback of data.result.gadgets.map; undefined is None
\* faulty variant: a change with any other action is listed as well
GadgetChangeAny(g) ==
    IF g.action = "lose"
    THEN Some(g.id \o " lose (-" \o ToString(g.amount) \o ")")
    ELSE Some(g.id \o " " \o g.action \o " (+" \o ToString(g.amount) \o ")")

GadgetChange(g) ==
    IF g.action = "acquire"
    THEN Some(g.id \o " acquire (+" \o ToString(g.amount) \o ")")
    ELSE IF g.action = "lose"
    THEN Some(g.id \o " lose (-" \o ToString(g.amount) \o ")")
    ELSE None

\* .map(...).filter(Boolean)
RECURSIVE GadgetChanges(_)
GadgetChanges(gs) ==
    IF gs = <<>> THEN <<>> ELSE GadgetChange(Head(gs)) \o GadgetChanges(Tail(gs))

\* resultText as built by lines 112-141, before trim
ResultText(result) ==
    LET changes == IF IsSome(result.resources)
                   THEN ResourceChanges(Get(result.resources)) ELSE <<>>
        gadgetChanges == IF IsSome(result.gadgets)
                         THEN GadgetChanges(Get(result.gadgets)) ELSE <<>>
    IN  (IF changes # <<>>
         THEN <<"resources: ">> \o Join(changes, ", ") \o <<"\n">> ELSE <<>>)
        \o (IF gadgetChanges # <<>>
            THEN <<"gadgets: ">> \o Join(gadgetChanges, ", ") \o <<"\n">> ELSE <<>>)

\* lines 111-146: the transcript after the optional result entry
AddResult(chat, result) ==
    IF ~IsSome(result) THEN chat
    ELSE LET resultText == ResultText(Get(result))
         IN  IF resultText # <<>> THEN AddMessage(chat, Trim(resultText), "result")
             ELSE chat

\* lines 105-108: the story text, '' is <<>>
Story(choice_mapped) ==
    IF ~IsSome(choice_mapped) THEN <<>>
    ELSE LET cm == Get(choice_mapped)
         IN  IF IsSome(cm.story) /\ Get(cm.story) # <<>> THEN Get(cm.story)
             ELSE IF IsSome(cm.explanation) THEN Get(cm.explanation)
             ELSE <<>>

AddStory(chat, choice_mapped) ==
    IF Story(choice_mapped) # <<>>
    THEN AddMessage(chat, Story(choice_mapped), "story") ELSE chat

\* faulty variant: the result entry is appended before the story entry
AddResultThenStory(chat, data) ==
    AddStory(AddResult(chat, data.result), data.choice_mapped)

\* lines 104-146: the story entry first, the result entry after it
AddStoryThenResult(chat, data) ==
    AddResult(AddStory(chat, data.choice_mapped), data.result)

-----------------------------------------------------------------------------
(* addEncounterBubbles (lines 232-260).  A wrap keeps the items it was     *)
(* called with, the nodes appended to it so far and the time since the     *)
(* call; a node records the index of its item and the time it appeared.    *)

OrEmpty(o) == IF IsSome(o) THEN Get(o) ELSE <<>>

\* faulty variant: no item is skipped
RenderItemNoSkip(m) ==
    IF m.type = "image"
    THEN Some([className |-> "message encounter-image", src |-> OrEmpty(m.url), text |-> <<>>])
    ELSE Some([className |-> "message encounter-bubble", src |-> <<>>, text |-> Trim(OrEmpty(m.content))])

\* the body of the timer callback (lines 241-256): the node to append, if any
RenderItem(m) ==
    IF m.type = "image"
    THEN LET url == OrEmpty(m.url)
         IN  IF url = <<>> THEN None
             ELSE Some([className |-> "message encounter-image", src |-> url, text |-> <<>>])
    ELSE LET text == Trim(OrEmpty(m.content))
         IN  IF text = <<>> THEN None
             ELSE Some([className |-> "message encounter-bubble", src |-> <<>>, text |-> text])

\* faulty variant: the delay counts only the visible items before the index
DelayCumulative(items, index) ==
    StaggerMs * Cardinality({j \in 1..index : IsSome(RenderItem(items[j]))})

\* the delay of setTimeout for the item at (0-based) index
Delay(items, index) == index * StaggerMs

NewTimers(id, items) ==
    [i \in 1..Len(items) |->
        [wrap |-> id, index |-> i - 1, m |-> items[i], delay |-> Delay(items, i - 1)]]

\* `st` is [chat, wraps, timers]; items is data.messages || []
AddEncounterBubbles(st, items) ==
    IF items = <<>> THEN st
    ELSE LET id == Len(st.wraps) + 1
         IN  [chat   |-> Append(st.chat, Group(id)),
              wraps  |-> Append(st.wraps, [items |-> items, children |-> <<>>, age |-> 0]),
              timers |-> st.timers \o NewTimers(id, items)]

-----------------------------------------------------------------------------
(* The initial state: the page as loaded (lines 2-16). *)

NoSession == [sessionId |-> None, currentEncounter |-> None, state |-> None]

Event(type, data, req) == [type |-> type, data |-> data, req |-> req]

Init ==
    /\ gameState = NoSession
    /\ startBtnDisabled = FALSE
    /\ chatInputDisabled = FALSE
    /\ chatInputValue = <<>>
    /\ sendBtnDisabled = FALSE
    /\ welcomeScreen = "block"
    /\ gameScreen = "none"
    /\ gameOverScreen = "none"
    /\ gameOverReason = <<>>
    /\ display = InitialDisplay
    /\ chatMessages = <<>>
    /\ wraps = <<>>
    /\ timers = <<>>
    /\ startFetches = 0
    /\ choiceFetches = <<>>
    /\ nextSessionId = 1
    /\ lastEvent = Event("load", None, None)

-----------------------------------------------------------------------------
(* startBtn click handler (lines 19-50). *)

\* line 21: the value startBtn.disabled takes when the handler goes on
StartBtnDisabledOnClick == TRUE

\* lines 19-25, up to the await of fetch
StartClick ==
    IF startBtnDisabled
    THEN /\ lastEvent' = Event("startClickIgnored", None, None)
         /\ UNCHANGED <<gameState, startBtnDisabled, chatInputDisabled, chatInputValue,
                        sendBtnDisabled, welcomeScreen, gameScreen, gameOverScreen,
                        gameOverReason, display, chatMessages, wraps, timers,
                        startFetches, choiceFetches, nextSessionId>>
    ELSE /\ startFetches < MaxFetches
         /\ startBtnDisabled' = StartBtnDisabledOnClick
         /\ chatMessages' = <<>>
         /\ startFetches' = startFetches + 1
         /\ lastEvent' = Event("startClick", None, None)
         /\ UNCHANGED <<gameState, chatInputDisabled, chatInputValue, sendBtnDisabled,
                        welcomeScreen, gameScreen, gameOverScreen, gameOverReason,
                        display, wraps, timers, choiceFetches, nextSessionId>>

\* lines 37-39 of the success path
\* faulty variant: a successful start keeps the encounter of the session before
SessionFromStartKeepsEncounter(data) ==
    [sessionId |-> data.session_id, currentEncounter |-> gameState.currentEncounter,
     state |-> data.state]

SessionFromStart(data) ==
    [sessionId |-> data.session_id, currentEncounter |-> data.encounter,
     state |-> data.state]

\* lines 29-44: the continuation once fetch and response.json() resolved
StartResponse(data) ==
    /\ startFetches > 0
    /\ startFetches' = startFetches - 1
    /\ IF IsSome(data.error) /\ Get(data.error) # <<>>
       THEN /\ startBtnDisabled' = FALSE
            /\ lastEvent' = Event("startError", Some(data), None)
            /\ UNCHANGED <<gameState, chatInputDisabled, chatInputValue,
                           sendBtnDisabled, welcomeScreen, gameScreen, gameOverScreen,
                           gameOverReason, display, chatMessages, wraps, timers,
                           choiceFetches, nextSessionId>>
       ELSE LET new == AddEncounterBubbles(
                           [chat |-> chatMessages, wraps |-> wraps, timers |-> timers],
                           OrEmpty(data.messages))
            IN  /\ nextSessionId <= MaxSessions
                /\ data.session_id = Some(nextSessionId)
                /\ Len(new.chat) <= MaxChat
                /\ Len(new.wraps) <= MaxWraps
                /\ nextSessionId' = nextSessionId + 1
                /\ gameState' = SessionFromStart(data)
                /\ welcomeScreen' = "none"
                /\ gameScreen' = "block"
                /\ display' = UpdateGameState(display, data.state)
                /\ chatMessages' = new.chat
                /\ wraps' = new.wraps
                /\ timers' = new.timers
                /\ lastEvent' = Event("startOk", Some(data), None)
                /\ UNCHANGED <<startBtnDisabled, chatInputDisabled, chatInputValue,
                               sendBtnDisabled, gameOverScreen, gameOverReason,
                               choiceFetches>>

\* the responses the server may give to a start request in flight
StartResponses(responses) ==
    startFetches > 0 /\ \E data \in responses : StartResponse(data)

\* lines 45-49: fetch or response.json() rejected
StartFailure ==
    /\ startFetches > 0
    /\ startFetches' = startFetches - 1
    /\ startBtnDisabled' = FALSE
    /\ lastEvent' = Event("startFailure", None, None)
    /\ UNCHANGED <<gameState, chatInputDisabled, chatInputValue, sendBtnDisabled,
                   welcomeScreen, gameScreen, gameOverScreen, gameOverReason,
                   display, chatMessages, wraps, timers, choiceFetches, nextSessionId>>

-----------------------------------------------------------------------------
(* restartBtn click handler (lines 53-59). *)

\* faulty variant: restart re-enables the input field and the send control too
RestartEnablesInput ==
    /\ gameState' = NoSession
    /\ gameOverScreen' = "none"
    /\ welcomeScreen' = "block"
    /\ chatMessages' = <<>>
    /\ startBtnDisabled' = FALSE
    /\ lastEvent' = Event("restart", None, None)
    /\ chatInputDisabled' = FALSE
    /\ sendBtnDisabled' = FALSE
    /\ UNCHANGED <<chatInputValue, gameScreen,
                   gameOverReason, display, wraps, timers, startFetches,
                   choiceFetches, nextSessionId>>

Restart ==
    /\ gameState' = NoSession
    /\ gameOverScreen' = "none"
    /\ welcomeScreen' = "block"
    /\ chatMessages' = <<>>
    /\ startBtnDisabled' = FALSE
    /\ lastEvent' = Event("restart", None, None)
    /\ UNCHANGED <<chatInputDisabled, chatInputValue, sendBtnDisabled, gameScreen,
                   gameOverReason, display, wraps, timers, startFetches,
                   choiceFetches, nextSessionId>>

-----------------------------------------------------------------------------
(* sendChoice (lines 62-175). *)

\* the player edits the input field; a disabled field takes no input
TypeInput(v) ==
    /\ ~chatInputDisabled
    /\ v # chatInputValue
    /\ chatInputValue' = v
    /\ lastEvent' = Event("type", None, None)
    /\ UNCHANGED <<gameState, startBtnDisabled, chatInputDisabled, sendBtnDisabled,
                   welcomeScreen, gameScreen, gameOverScreen, gameOverReason,
                   display, chatMessages, wraps, timers, startFetches,
                   choiceFetches, nextSessionId>>

\* faulty variant: the input is not trimmed
InputNoTrim == chatInputValue

\* line 70
Input == Trim(chatInputValue)

\* faulty variant: the controls are not disabled before the fetch
ControlsLeftEnabled == FALSE

\* lines 83-84: the value both disabled properties take before the fetch
ControlsDisabledOnSend == TRUE

\* lines 69-93, up to the await of fetch
SendChoice ==
    IF Input = <<>>
    THEN /\ lastEvent' = Event("sendEmpty", None, None)
         /\ UNCHANGED <<gameState, startBtnDisabled, chatInputDisabled, chatInputValue,
                        sendBtnDisabled, welcomeScreen, gameScreen, gameOverScreen,
                        gameOverReason, display, chatMessages, wraps, timers,
                        startFetches, choiceFetches, nextSessionId>>
    ELSE IF ~IsSome(gameState.sessionId)
    THEN /\ lastEvent' = Event("sendNoSession", None, None)
         /\ UNCHANGED <<gameState, startBtnDisabled, chatInputDisabled, chatInputValue,
                        sendBtnDisabled, welcomeScreen, gameScreen, gameOverScreen,
                        gameOverReason, display, chatMessages, wraps, timers,
                        startFetches, choiceFetches, nextSessionId>>
    ELSE /\ Len(choiceFetches) < MaxFetches
         /\ Len(chatMessages) < MaxChat
         /\ chatMessages' = AddMessage(chatMessages, Input, "player")
         /\ chatInputValue' = <<>>
         /\ chatInputDisabled' = ControlsDisabledOnSend
         /\ sendBtnDisabled' = ControlsDisabledOnSend
         /\ choiceFetches' = Append(choiceFetches,
                                    [sessionId |-> Get(gameState.sessionId), input |-> Input])
         /\ lastEvent' = Event("send", None, None)
         /\ UNCHANGED <<gameState, startBtnDisabled, welcomeScreen, gameScreen,
                        gameOverScreen, gameOverReason, display, wraps, timers,
                        startFetches, nextSessionId>>

\* line 62: a click on the send control, which a disabled control does not get
SendBtnClick == ~sendBtnDisabled /\ SendChoice

\* lines 63-67: Enter in the input field, which a disabled field does not get
ChatInputEnter == ~chatInputDisabled /\ SendChoice

RemoveAt(seq, i) == SubSeq(seq, 1, i - 1) \o SubSeq(seq, i + 1, Len(seq))


\* line 155: data.game_over_reason || default
ReasonShown(data) ==
    IF IsSome(data.game_over_reason) /\ Get(data.game_over_reason) # <<>>
    THEN Get(data.game_over_reason) ELSE <<DefaultReason>>

\* faulty variant: processing goes on after game over
GameOverStopsNot(data) == FALSE

\* line 152: if (data.game_over) ... return
GameOverStops(data) == data.game_over

\* lines 95-167: the continuation once fetch and response.json() resolved,
\* for the i-th request in flight
ChoiceResponse(i, data) ==
    /\ i \in 1..Len(choiceFetches)
    /\ choiceFetches' = RemoveAt(choiceFetches, i)
    /\ UNCHANGED <<startBtnDisabled, chatInputValue, welcomeScreen, startFetches,
                   nextSessionId>>
    /\ IF IsSome(data.error) /\ Get(data.error) # <<>>
       THEN /\ Len(chatMessages) < MaxChat
            /\ chatMessages' = AddMessage(chatMessages, Get(data.error), "system")
            /\ chatInputDisabled' = FALSE
            /\ sendBtnDisabled' = FALSE
            /\ lastEvent' = Event("choiceError", Some(data), Some(choiceFetches[i]))
            /\ UNCHANGED <<gameState, gameScreen, gameOverScreen, gameOverReason, display,
                           wraps, timers>>
       ELSE LET chat2 == AddStoryThenResult(chatMessages, data)
                new == IF IsSome(data.next_encounter)
                       THEN AddEncounterBubbles(
                                [chat |-> chat2, wraps |-> wraps, timers |-> timers],
                                OrEmpty(data.messages))
                       ELSE [chat |-> chat2, wraps |-> wraps, timers |-> timers]
            IN  /\ display' = UpdateGameState(display, data.state)
                /\ IF GameOverStops(data)
                   THEN /\ Len(chat2) <= MaxChat
                        /\ chatMessages' = chat2
                        /\ gameOverScreen' = "block"
                        /\ gameScreen' = "none"
                        /\ gameOverReason' = ReasonShown(data)
                        /\ lastEvent' = Event("gameOver", Some(data), Some(choiceFetches[i]))
                        /\ UNCHANGED <<gameState, chatInputDisabled, sendBtnDisabled,
                                       wraps, timers>>
                   ELSE /\ Len(new.chat) <= MaxChat
                        /\ Len(new.wraps) <= MaxWraps
                        /\ gameState' = IF IsSome(data.next_encounter)
                                        THEN [gameState EXCEPT
                                                !.currentEncounter = data.next_encounter]
                                        ELSE gameState
                        /\ chatMessages' = new.chat
                        /\ wraps' = new.wraps
                        /\ timers' = new.timers
                        /\ chatInputDisabled' = FALSE
                        /\ sendBtnDisabled' = FALSE
                        /\ lastEvent' = Event("choiceOk", Some(data), Some(choiceFetches[i]))
                        /\ UNCHANGED <<gameScreen, gameOverScreen, gameOverReason>>

\* faulty variant: the catch block resets the session
ChoiceFailureResets(i) ==
    /\ i \in 1..Len(choiceFetches)
    /\ Len(chatMessages) < MaxChat
    /\ choiceFetches' = RemoveAt(choiceFetches, i)
    /\ chatMessages' = AddMessage(chatMessages, <<GenericFailure>>, "system")
    /\ chatInputDisabled' = FALSE
    /\ sendBtnDisabled' = FALSE
    /\ gameState' = NoSession
    /\ lastEvent' = Event("choiceFailure", None, Some(choiceFetches[i]))
    /\ UNCHANGED <<startBtnDisabled, chatInputValue, welcomeScreen, gameScreen,
                   gameOverScreen, gameOverReason, display, wraps, timers,
                   startFetches, nextSessionId>>

\* lines 169-174: fetch or response.json() rejected for the i-th request
ChoiceFailure(i) ==
    /\ i \in 1..Len(choiceFetches)
    /\ Len(chatMessages) < MaxChat
    /\ choiceFetches' = RemoveAt(choiceFetches, i)
    /\ chatMessages' = AddMessage(chatMessages, <<GenericFailure>>, "system")
    /\ chatInputDisabled' = FALSE
    /\ sendBtnDisabled' = FALSE
    /\ lastEvent' = Event("choiceFailure", None, Some(choiceFetches[i]))
    /\ UNCHANGED <<gameState, startBtnDisabled, chatInputValue, welcomeScreen, gameScreen,
                   gameOverScreen, gameOverReason, display, wraps, timers,
                   startFetches, nextSessionId>>

-----------------------------------------------------------------------------
(* The timers of addEncounterBubbles.  A timer fires when its delay has    *)
(* run out; timers due at the same time fire in the order they were set.   *)

Due == {i \in 1..Len(timers) : timers[i].delay = 0}

FirstDue == CHOOSE i \in Due : \A j \in Due : i <= j

\* lines 240-258: the callback of the first timer due
TimerFire ==
    /\ Due # {}
    /\ LET t == timers[FirstDue]
           node == RenderItem(t.m)
           w == wraps[t.wrap]
       IN  /\ wraps' = IF IsSome(node)
                       THEN [wraps EXCEPT ![t.wrap].children =
                                Append(@, [className |-> Get(node).className,
                                           src |-> Get(node).src,
                                           text |-> Get(node).text,
                                           index |-> t.index,
                                           at |-> w.age])]
                       ELSE wraps
           /\ timers' = RemoveAt(timers, FirstDue)
           /\ lastEvent' = Event("timer", None, None)
    /\ UNCHANGED <<gameState, startBtnDisabled, chatInputDisabled, chatInputValue,
                   sendBtnDisabled, welcomeScreen, gameScreen, gameOverScreen,
                   gameOverReason, display, chatMessages, startFetches,
                   choiceFetches, nextSessionId>>

Pending(id) == \E i \in 1..Len(timers) : timers[i].wrap = id

\* time passes until the next timer is due
Tick ==
    /\ timers # <<>>
    /\ Due = {}
    /\ LET d == CHOOSE d \in {timers[i].delay : i \in 1..Len(timers)} :
                    \A i \in 1..Len(timers) : d <= timers[i].delay
       IN  /\ timers' = [i \in 1..Len(timers) |->
                            [timers[i] EXCEPT !.delay = @ - d]]
           /\ wraps' = [id \in 1..Len(wraps) |->
                            IF Pending(id) THEN [wraps[id] EXCEPT !.age = @ + d]
                            ELSE wraps[id]]
    /\ lastEvent' = Event("tick", None, None)
    /\ UNCHANGED <<gameState, startBtnDisabled, chatInputDisabled, chatInputValue,
                   sendBtnDisabled, welcomeScreen, gameScreen, gameOverScreen,
                   gameOverReason, display, chatMessages, startFetches,
                   choiceFetches, nextSessionId>>

-----------------------------------------------------------------------------
(* What the server and the player may send. *)

TextItem(content) == [type |-> "text", content |-> content, url |-> None]
ImageItem(url) == [type |-> "image", content |-> None, url |-> url]

Resources(h, m, n) == [health |-> h, mental |-> m, money |-> n]

Snapshot(resources, gadgets) == [resources |-> resources, gadgets |-> gadgets]

SnapA == Snapshot(Some(Resources(Some(2), Some(3), Some(1))), Some(<<"g1">>))
SnapB == Snapshot(Some(Resources(Some(-1), Some(5), Some(2))), None)

Messages2 == <<TextItem(Some(<<"a">>)), ImageItem(Some(<<"u">>))>>

StartError == [error |-> Some(<<"E">>), session_id |-> None, encounter |-> None,
               state |-> None, messages |-> None]

StartOk(sid, state, messages) ==
    [error |-> None, session_id |-> Some(sid), encounter |-> Some("e1"),
     state |-> state, messages |-> messages]

\* the start responses of the main specification
StartData == {StartError, StartOk(nextSessionId, Some(SnapA), Some(Messages2))}

ChoiceOk(cm, result, state, over, reason, next, messages) ==
    [error |-> None, choice_mapped |-> cm, result |-> result, state |-> state,
     game_over |-> over, game_over_reason |-> reason, next_encounter |-> next,
     messages |-> messages]

ChoiceError ==
    [error |-> Some(<<"E">>), choice_mapped |-> None, result |-> None,
     state |-> None, game_over |-> FALSE, game_over_reason |-> None,
     next_encounter |-> None, messages |-> None]

Mapped(story, explanation) == [story |-> story, explanation |-> explanation]

Result(resources, gadgets) == [resources |-> resources, gadgets |-> gadgets]

Gadget(id, action, amount) == [id |-> id, action |-> action, amount |-> amount]

ResultA == Result(Some(Resources(Some(-1), None, Some(0))),
                  Some(<<Gadget("g1", "acquire", 1)>>))

\* a turn that goes on: a story, a new state, the next encounter's messages
ChoiceFull ==
    ChoiceOk(Some(Mapped(Some(<<"S">>), None)), None, Some(SnapB),
             FALSE, None, Some("e2"), Some(Messages2))

\* game over without a reason, next_encounter and messages in the same response
ChoiceOverBare ==
    ChoiceOk(None, None, Some(SnapB), TRUE, None, Some("e2"), Some(Messages2))

\* game over with a reason and a result
ChoiceOverReason ==
    ChoiceOk(None, Some(ResultA), Some(SnapB), TRUE, Some(<<"R">>), None, None)

\* game over with an empty reason string
ChoiceOverEmptyReason == ChoiceOk(None, None, None, TRUE, Some(<<>>), None, None)

\* the choice responses of the main specification
ChoiceData ==
    {ChoiceError, ChoiceFull, ChoiceOverBare, ChoiceOverReason, ChoiceOverEmptyReason}

\* what the player may type: nothing, white space only, padded text
Inputs == {<<>>, <<" ">>, <<" ", "a">>}

-----------------------------------------------------------------------------
(* The program: every handler may run whenever its event can be delivered. *)

Next ==
    \/ StartClick
    \/ StartResponses(StartData)
    \/ StartFailure
    \/ Restart
    \/ \E v \in Inputs : TypeInput(v)
    \/ SendBtnClick
    \/ ChatInputEnter
    \/ \E i \in 1..Len(choiceFetches) : \E data \in ChoiceData : ChoiceResponse(i, data)
    \/ \E i \in 1..Len(choiceFetches) : ChoiceFailure(i)
    \/ TimerFire
    \/ Tick

Spec == Init /\ [][Next]_vars

-----------------------------------------------------------------------------
(* SpecDisplay: the start of a session with every state snapshot over a    *)
(* range of resource values, for updateGameState.                          *)

ResourceValues == {None, Some(-1), Some(0), Some(2), Some(3), Some(5)}

DisplaySnapshots ==
    {Snapshot(r, g) :
        r \in {None} \cup {Some(Resources(h, m, n)) :
                             h \in ResourceValues, m \in ResourceValues,
                             n \in ResourceValues},
        g \in {None, Some(<<"g1", "g2">>)}}

DisplayStartData ==
    {StartOk(nextSessionId, s, None) : s \in {None} \cup {Some(x) : x \in DisplaySnapshots}}

NextDisplay ==
    \/ StartClick
    \/ StartResponses(DisplayStartData)
    \/ StartFailure

SpecDisplay == Init /\ [][NextDisplay]_vars

-----------------------------------------------------------------------------
(* SpecResult: turns of one session with every result over a range of      *)
(* resource deltas and gadget changes, for the result entry.               *)

DeltaValues == {None, Some(-1), Some(0), Some(2)}

GadgetLists ==
    { <<>>,
      <<Gadget("g1", "acquire", 1)>>,
      <<Gadget("g2", "lose", 2)>>,
      <<Gadget("g3", "use", 1)>>,
      <<Gadget("g3", "use", 1), Gadget("g1", "acquire", 1)>> }

ResultData ==
    {Result(r, None) :
        r \in {None} \cup {Some(Resources(h, m, n)) :
                             h \in DeltaValues, m \in DeltaValues, n \in DeltaValues}}
    \cup {Result(r, Some(g)) :
            r \in {None, Some(Resources(Some(0), None, None)),
                   Some(Resources(None, Some(2), None))},
            g \in GadgetLists}

ResultChoiceData ==
    {ChoiceOk(None, Some(r), None, FALSE, None, None, None) : r \in ResultData}
    \cup {ChoiceOk(None, None, None, FALSE, None, None, None)}

ResultStartData == {StartOk(nextSessionId, Some(SnapA), Some(Messages2))}

NextResult ==
    \/ StartClick
    \/ StartResponses(ResultStartData)
    \/ \E v \in {<<"a">>} : TypeInput(v)
    \/ SendBtnClick
    \/ \E i \in 1..Len(choiceFetches) : \E data \in ResultChoiceData : ChoiceResponse(i, data)
    \/ TimerFire
    \/ Tick

SpecResult == Init /\ [][NextResult]_vars

-----------------------------------------------------------------------------
(* Whole turns: a start response without messages, so that the transcript  *)
(* of a turn holds the player entry, the story, the result and the group,  *)
(* and choice responses with every combination of their optional fields.   *)

MappedValues ==
    {None, Some(Mapped(Some(<<"S">>), None)), Some(Mapped(Some(<<>>), Some(<<"X">>))),
     Some(Mapped(None, None))}

\* a result with a text, and one whose only delta is zero
TurnResults == {None, Some(ResultA), Some(Result(Some(Resources(Some(0), None, None)), None))}

TurnChoiceData ==
    {ChoiceOk(cm, result, state, over, None, next, messages) :
        cm \in MappedValues, result \in TurnResults, state \in {None, Some(SnapB)},
        over \in BOOLEAN, next \in {None, Some("e2")},
        messages \in {None, Some(Messages2)}}

TurnStartData == {StartOk(nextSessionId, Some(SnapA), None)}

NextTurn ==
    \/ StartClick
    \/ StartResponses(TurnStartData)
    \/ \E v \in {<<"a">>} : TypeInput(v)
    \/ SendBtnClick
    \/ \E i \in 1..Len(choiceFetches) : \E data \in TurnChoiceData : ChoiceResponse(i, data)
    \/ TimerFire
    \/ Tick

SpecTurn == Init /\ [][NextTurn]_vars

-----------------------------------------------------------------------------
(* Encounters: every handler, with choice responses that carry a next      *)
(* encounter or none, game over or not.                                    *)

EncounterChoiceData ==
    {ChoiceError}
    \cup {ChoiceOk(None, None, None, over, None, next, messages) :
            over \in BOOLEAN, next \in {None, Some("e2")},
            messages \in {None, Some(Messages2)}}

EncounterStartData == {StartError, StartOk(nextSessionId, None, None)}

NextEncounter ==
    \/ StartClick
    \/ StartResponses(EncounterStartData)
    \/ StartFailure
    \/ Restart
    \/ \E v \in {<<"a">>} : TypeInput(v)
    \/ SendBtnClick
    \/ ChatInputEnter
    \/ \E i \in 1..Len(choiceFetches) :
          \E data \in EncounterChoiceData : ChoiceResponse(i, data)
    \/ \E i \in 1..Len(choiceFetches) : ChoiceFailure(i)
    \/ TimerFire
    \/ Tick

SpecEncounter == Init /\ [][NextEncounter]_vars

-----------------------------------------------------------------------------
(* SpecBubbles: the start of a session with every message sequence of up   *)
(* to MaxItems items, for addEncounterBubbles and its timers.              *)

Items ==
    { TextItem(None), TextItem(Some(<<" ">>)), TextItem(Some(<<"a">>)),
      TextItem(Some(<<" ", "b">>)),
      ImageItem(None), ImageItem(Some(<<>>)), ImageItem(Some(<<"u">>)) }

ItemSeqs == UNION {[1..n -> Items] : n \in 0..MaxItems}

BubbleStartData ==
    {StartOk(nextSessionId, None, m) : m \in {None} \cup {Some(x) : x \in ItemSeqs}}

NextBubbles ==
    \/ StartClick
    \/ StartResponses(BubbleStartData)
    \/ TimerFire
    \/ Tick

SpecBubbles == Init /\ [][NextBubbles]_vars

-----------------------------------------------------------------------------
(* Claims about the request guards and the session (checked under Spec). *)

\* C1: in every reachable state at most one start request is in flight.
C1_AtMostOneStartInFlight == startFetches <= 1

\* C2: in every reachable state at most one choice request is in flight, and
\* while one is in flight the input field and the send control are disabled.
C2_OneChoiceInFlight ==
    /\ Len(choiceFetches) <= 1
    /\ choiceFetches # <<>> => chatInputDisabled /\ sendBtnDisabled

\* a choice has just been sent and its request is in flight
C2_Witness == lastEvent.type = "send" /\ Len(choiceFetches) = 1

ChoiceResponseTypes == {"choiceOk", "choiceError", "gameOver"}

\* the step is the arrival of a choice response whose request was sent for a
\* session that is no longer the live one
StaleChoiceResponse ==
    /\ lastEvent'.type \in ChoiceResponseTypes
    /\ gameState.sessionId # Some(Get(lastEvent'.req).sessionId)

\* C3: a choice response that arrives after its session was reset by restart
\* changes neither the Session nor the transcript nor the view shown.
C3_StaleResponseDiscarded ==
    [][StaleChoiceResponse =>
          /\ gameState' = gameState
          /\ chatMessages' = chatMessages
          /\ <<welcomeScreen', gameScreen', gameOverScreen'>>
                = <<welcomeScreen, gameScreen, gameOverScreen>>]_vars

IsBlank(t) == \A i \in 1..Len(t) : IsSpace(t[i])

SendTypes == {"sendEmpty", "sendNoSession", "send"}

\* C4: sendChoice with an empty or white-space-only input issues no request,
\* appends no chat entry and leaves the Session, the controls and the views
\* as they were.
C4_EmptyInputNoOp ==
    [][(lastEvent'.type \in SendTypes /\ IsBlank(chatInputValue)) =>
          UNCHANGED <<gameState, startBtnDisabled, chatInputDisabled, chatInputValue,
                      sendBtnDisabled, welcomeScreen, gameScreen, gameOverScreen,
                      gameOverReason, display, chatMessages, wraps, timers,
                      startFetches, choiceFetches>>]_vars

\* white space only was submitted while a session was live
C4_Witness ==
    /\ lastEvent.type = "sendEmpty"
    /\ chatInputValue = <<" ">>
    /\ IsSome(gameState.sessionId)

FailureTypes == {"startError", "startFailure", "choiceError", "choiceFailure"}

\* C5: a start or choice request that ends with an error field or with a
\* transport/parse failure leaves sessionId, currentEncounter and state as
\* they were (so after a failed start an absent session stays absent).
C5_FailureKeepsSession ==
    [][lastEvent'.type \in FailureTypes => gameState' = gameState]_vars

\* a choice request has failed in transport while a session was live
C5_Witness == lastEvent.type = "choiceFailure" /\ IsSome(gameState.sessionId)

\* the entries a step appended to the transcript
Appended == SubSeq(chatMessages', Len(chatMessages) + 1, Len(chatMessages'))

\* C6: a successful choice response with game_over true switches to the
\* game-over view, shows the supplied (non-empty) reason or else the default
\* reason string, leaves currentEncounter as it was, renders no encounter
\* group even when next_encounter and messages are present, and leaves the
\* input field and the send control disabled.
C6_GameOverStops ==
    [][(/\ lastEvent'.type \in {"choiceOk", "gameOver"}
        /\ Get(lastEvent'.data).game_over) =>
          LET data == Get(lastEvent'.data)
          IN  /\ gameOverScreen' = "block"
              /\ gameScreen' = "none"
              /\ gameOverReason' =
                    IF data.game_over_reason \in {None, Some(<<>>)}
                    THEN <<DefaultReason>> ELSE Get(data.game_over_reason)
              /\ gameState'.currentEncounter = gameState.currentEncounter
              /\ Len(chatMessages') >= Len(chatMessages)
              /\ \A k \in 1..Len(Appended) : Appended[k].wrap = 0
              /\ wraps' = wraps
              /\ timers' = timers
              /\ chatInputDisabled' /\ sendBtnDisabled']_vars

\* game over arrived without a reason but with next_encounter and messages
C6_Witness ==
    /\ lastEvent.type = "gameOver"
    /\ lastEvent.data = Some(ChoiceOverBare)
    /\ gameOverScreen = "block"
    /\ gameOverReason = <<DefaultReason>>

-----------------------------------------------------------------------------
(* Claims about the resource display (checked under SpecDisplay). *)

\* the value the claim says is shown for an optional resource value
Shown(o, dflt) ==
    LET v == IF o = None THEN dflt ELSE Get(o)
    IN  IF v < 0 THEN 0 ELSE IF v > 3 THEN 3 ELSE v

Filled(icons) == Cardinality({k \in DOMAIN icons : ~icons[k]})

LabelOf(n) ==
    IF n = 0 THEN "0/3" ELSE IF n = 1 THEN "1/3" ELSE IF n = 2 THEN "2/3" ELSE "3/3"

SnapshotOfClaim == Snapshot(Some(Resources(Some(-1), Some(5), Some(2))), None)

\* C7: after updateGameState on a state snapshot, each of health, mental and
\* money shows min(3, max(0, v)), v being the value of state.resources or
\* the default (3, 3, 0) when the field is missing: the label is "N/3" and
\* exactly N of the 3 icons are filled; {-1, 5, 2} shows 0/3, 3/3, 2/3.
C7_ClampedDisplay ==
    (lastEvent.type = "startOk" /\ IsSome(Get(lastEvent.data).state)) =>
        LET state == Get(Get(lastEvent.data).state)
            r == IF state.resources = None THEN NoResources ELSE Get(state.resources)
            health == Shown(r.health, 3)
            mental == Shown(r.mental, 3)
            money == Shown(r.money, 0)
        IN  /\ display.healthValue = LabelOf(health)
            /\ display.mentalValue = LabelOf(mental)
            /\ display.moneyValue = LabelOf(money)
            /\ Filled(display.healthIcons) = health
            /\ Filled(display.mentalIcons) = mental
            /\ Filled(display.moneyIcons) = money
            /\ Len(display.healthIcons) = 3
            /\ state = SnapshotOfClaim =>
                  <<display.healthValue, display.mentalValue, display.moneyValue>>
                      = <<"0/3", "3/3", "2/3">>

\* the snapshot {health: -1, mental: 5, money: 2} has been displayed
C7_Witness ==
    /\ lastEvent.type = "startOk"
    /\ Get(lastEvent.data).state = Some(SnapshotOfClaim)
    /\ display.healthValue = "0/3"

-----------------------------------------------------------------------------
(* Claims about the result entry (checked under SpecResult). *)

\* the entry the claim describes for one resource: nothing for a missing or
\* zero delta, else the name with "+" before a positive delta
DeltaEntry(name, o) ==
    IF o = None THEN <<>>
    ELSE IF Get(o) = 0 THEN <<>>
    ELSE IF Get(o) > 0 THEN <<name \o ": +" \o ToString(Get(o))>>
    ELSE <<name \o ": -" \o ToString(0 - Get(o))>>

DeltaEntries(r) ==
    DeltaEntry("health", r.health) \o DeltaEntry("mental", r.mental)
        \o DeltaEntry("money", r.money)

\* the result entries a step appended
ResultEntries == SelectSeq(Appended, LAMBDA e : e.className = "message result")

\* the pieces of the resource line of a result text: the line runs to the
\* first line break and starts with its label
RECURSIVE FirstLine(_)
FirstLine(t) ==
    IF t = <<>> THEN <<>>
    ELSE IF Head(t) = "\n" THEN <<>> ELSE <<Head(t)>> \o FirstLine(Tail(t))

ResourceLine(text) ==
    IF text # <<>> /\ Head(text) = "resources: " THEN FirstLine(Tail(text)) ELSE <<>>

ListedEntries(text) == SelectSeq(ResourceLine(text), LAMBDA piece : piece # ", ")

ResultOfClaim == Result(Some(Resources(Some(-1), None, Some(0))), None)

\* C8: the resource line of the result entry lists exactly the resources
\* among health, mental, money whose delta is present and non-zero, in that
\* order, a positive delta with "+", a negative one with its minus sign.
C8_ResourceDeltaLine ==
    [][(/\ lastEvent'.type = "choiceOk"
        /\ IsSome(Get(lastEvent'.data).result)
        /\ IsSome(Get(Get(lastEvent'.data).result).resources)) =>
          LET resources == Get(Get(Get(lastEvent'.data).result).resources)
              expected == DeltaEntries(resources)
          IN  /\ Len(ResultEntries) <= 1
              /\ expected # <<>> =>
                    /\ Len(ResultEntries) = 1
                    /\ ListedEntries(ResultEntries[1].text) = expected
              /\ (expected = <<>> /\ Len(ResultEntries) = 1) =>
                    ResourceLine(ResultEntries[1].text) = <<>>]_vars

\* the result {health: -1, money: 0} has been rendered as "health: -1" alone
C8_Witness ==
    /\ lastEvent.type = "choiceOk"
    /\ Get(lastEvent.data).result = Some(ResultOfClaim)
    /\ chatMessages # <<>>
    /\ chatMessages[Len(chatMessages)].text = <<"resources: ", "health: -1">>

-----------------------------------------------------------------------------
(* Claims about the encounter bubbles (checked under SpecBubbles). *)

\* an item the claim says is not skipped
Kept(m) ==
    IF m.type = "image" THEN m.url \notin {None, Some(<<>>)}
    ELSE m.content # None /\ ~IsBlank(Get(m.content))

KeptIndexes(items) ==
    SelectSeq([i \in 1..Len(items) |-> i - 1], LAMBDA j : Kept(items[j + 1]))

NodeIndexes(w) == [k \in 1..Len(w.children) |-> w.children[k].index]

Groups(chat) == SelectSeq(chat, LAMBDA e : e.wrap # 0)

ItemsOfClaim == <<TextItem(Some(<<"a">>)), ImageItem(Some(<<>>)), TextItem(Some(<<" ", "b">>))>>

\* every container whose timers have all fired holds the kept items' nodes
NodesAreKeptItems ==
    \A id \in 1..Len(wraps) :
        /\ wraps[id].items # <<>>
        /\ ~Pending(id) => NodeIndexes(wraps[id]) = KeptIndexes(wraps[id].items)

\* C9: once all timers of a call of addEncounterBubbles have fired, its
\* grouping container holds exactly one node per item that is not skipped,
\* in the order of the items; an empty or absent sequence appends no
\* grouping container, any other sequence exactly one.
C9_OneNodePerKeptItem ==
    /\ NodesAreKeptItems
    /\ lastEvent.type = "startOk" =>
          Len(Groups(chatMessages)) =
              IF OrEmpty(Get(lastEvent.data).messages) = <<>> THEN 0 ELSE 1

\* text, image with an empty url, text: all timers fired, two nodes
C9_Witness ==
    \E id \in 1..Len(wraps) :
        /\ wraps[id].items = ItemsOfClaim
        /\ ~Pending(id)
        /\ Len(wraps[id].children) = 2

-----------------------------------------------------------------------------
(* Claims about the controls and the Session (checked under Spec). *)

\* C11: a request that ends with an error field or a transport/parse failure
\* re-enables the controls it disabled: after a failed start the start
\* control is enabled and the welcome view is (still) shown; after a failed
\* choice the input field and the send control are enabled and a system
\* entry has been appended.
C11_FailureReenables ==
    /\ lastEvent.type \in {"startError", "startFailure"} =>
          ~startBtnDisabled /\ welcomeScreen = "block"
    /\ lastEvent.type \in {"choiceError", "choiceFailure"} =>
          /\ ~chatInputDisabled /\ ~sendBtnDisabled
          /\ chatMessages # <<>>
          /\ chatMessages[Len(chatMessages)].className = "message system"

\* C12: after every successful response, start or choice, gameState.state is
\* the state snapshot the response carried.
C12_StateIsLatestSnapshot ==
    lastEvent.type \in {"startOk", "choiceOk", "gameOver"} =>
        gameState.state = Get(lastEvent.data).state

\* the step moved the start control / the input controls from disabled to enabled
StartReenabled == startBtnDisabled /\ ~startBtnDisabled'

InputReenabled ==
    \/ chatInputDisabled /\ ~chatInputDisabled'
    \/ sendBtnDisabled /\ ~sendBtnDisabled'

\* C13: the start control is re-enabled only by the completion of a start
\* request, the input field and the send control only by the completion of
\* a choice request; no other event re-enables a control.
C13_OnlyCompletionReenables ==
    [][/\ StartReenabled => lastEvent'.type \in {"startError", "startFailure", "startOk"}
       /\ InputReenabled =>
             lastEvent'.type \in {"choiceError", "choiceFailure", "choiceOk", "gameOver"}]_vars

\* C13 as amended: the start control is re-enabled only by the completion of
\* a failed start request or by restart; the input field and the send
\* control only by the completion of a choice request that is not game over.
C13_ReenabledByCompletionOrRestart ==
    [][/\ StartReenabled => lastEvent'.type \in {"startError", "startFailure", "restart"}
       /\ InputReenabled =>
             \/ lastEvent'.type \in {"choiceError", "choiceFailure"}
             \/ /\ lastEvent'.type = "choiceOk"
                /\ ~Get(lastEvent'.data).game_over]_vars

\* restart has re-enabled the start control after a game over
C13_Witness ==
    /\ lastEvent.type = "restart"
    /\ ~startBtnDisabled
    /\ gameOverReason # <<>>
    /\ chatInputDisabled

-----------------------------------------------------------------------------
(* Claims about a whole choice turn (checked under SpecTurn and SpecResult). *)

\* the response has a story to show: choice_mapped.story, or else
\* choice_mapped.explanation, is a non-empty string
HasStory(data) ==
    /\ IsSome(data.choice_mapped)
    /\ LET cm == Get(data.choice_mapped)
       IN  \/ IsSome(cm.story) /\ Get(cm.story) # <<>>
           \/ IsSome(cm.explanation) /\ Get(cm.explanation) # <<>>

\* the response has a result to show: a resource delta that is present and
\* not zero, or a gadget change whose action is acquire or lose
HasResult(data) ==
    /\ IsSome(data.result)
    /\ LET result == Get(data.result)
       IN  \/ /\ IsSome(result.resources)
              /\ \E f \in {"health", "mental", "money"} :
                    Get(result.resources)[f] \notin {None, Some(0)}
           \/ /\ IsSome(result.gadgets)
              /\ \E k \in 1..Len(Get(result.gadgets)) :
                    Get(result.gadgets)[k].action \in {"acquire", "lose"}

\* the response has a next encounter to render
HasGroup(data) ==
    /\ ~data.game_over
    /\ IsSome(data.next_encounter)
    /\ data.messages \notin {None, Some(<<>>)}

ExpectedClasses(data) ==
    (IF HasStory(data) THEN <<"message story">> ELSE <<>>)
    \o (IF HasResult(data) THEN <<"message result">> ELSE <<>>)
    \o (IF HasGroup(data) THEN <<"message-group encounter">> ELSE <<>>)

\* the resource display disp shows the snapshot, clamped as in C7
ShowsSnapshot(disp, state) ==
    LET r == IF state.resources = None THEN NoResources ELSE Get(state.resources)
    IN  /\ disp.healthValue = LabelOf(Shown(r.health, 3))
        /\ disp.mentalValue = LabelOf(Shown(r.mental, 3))
        /\ disp.moneyValue = LabelOf(Shown(r.money, 0))
        /\ Filled(disp.healthIcons) = Shown(r.health, 3)
        /\ Filled(disp.mentalIcons) = Shown(r.mental, 3)
        /\ Filled(disp.moneyIcons) = Shown(r.money, 0)

\* C14: in one successful choice turn the transcript receives, in this
\* order, the player entry (at submission), then from the response the
\* story entry if any, the result entry if any and the next encounter's
\* group if any; the resource display is synchronized from the response's
\* state, in the game-over case as in the case that renders an encounter.
C14_TurnOrder ==
    [][lastEvent'.type \in {"choiceOk", "gameOver"} =>
          LET data == Get(lastEvent'.data)
          IN  /\ chatMessages # <<>>
              /\ chatMessages[Len(chatMessages)].className = "message player"
              /\ SubSeq(chatMessages', 1, Len(chatMessages)) = chatMessages
              /\ [k \in 1..Len(Appended) |-> Appended[k].className]
                    = ExpectedClasses(data)
              /\ IF IsSome(data.state)
                 THEN ShowsSnapshot(display', Get(data.state))
                 ELSE display' = display]_vars

\* a turn has put a player entry, a story, a result and a group in the
\* transcript and the new state on the display
C14_Witness ==
    /\ lastEvent.type = "choiceOk"
    /\ HasStory(Get(lastEvent.data)) /\ HasResult(Get(lastEvent.data))
    /\ Get(lastEvent.data).state = Some(SnapB)
    /\ [k \in 1..Len(chatMessages) |-> chatMessages[k].className]
          = <<"message player", "message story", "message result",
              "message-group encounter">>
    /\ display.healthValue = "0/3"

\* the pieces of a result text that follow the label of its gadget line
RECURSIVE AfterGadgetLabel(_)
AfterGadgetLabel(t) ==
    IF t = <<>> THEN <<>>
    ELSE IF Head(t) = "gadgets: " THEN Tail(t) ELSE AfterGadgetLabel(Tail(t))

ListedGadgets(text) ==
    SelectSeq(AfterGadgetLabel(text), LAMBDA piece : piece \notin {", ", "\n"})

Recognized(result) ==
    IF IsSome(result.gadgets)
    THEN SelectSeq(Get(result.gadgets), LAMBDA g : g.action \in {"acquire", "lose"})
    ELSE <<>>

\* C15: a choice response appends a result entry exactly when its result has
\* a resource delta other than zero or a gadget change with action acquire
\* or lose; gadget changes with another action are left out of the text, and
\* a result with only zero deltas and such actions appends no entry.
C15_ResultEntryIffText ==
    [][lastEvent'.type = "choiceOk" =>
          LET data == Get(lastEvent'.data)
          IN  /\ Len(ResultEntries) = IF HasResult(data) THEN 1 ELSE 0
              /\ HasResult(data) =>
                    /\ ResultEntries[1].text # <<>>
                    /\ Len(ListedGadgets(ResultEntries[1].text))
                          = Len(Recognized(Get(data.result)))]_vars

\* a result with a zero delta and a gadget change of action "use" has been
\* handled and the transcript ends with the player entry
C15_Witness ==
    /\ lastEvent.type = "choiceOk"
    /\ Get(lastEvent.data).result
          = Some(Result(Some(Resources(Some(0), None, None)),
                        Some(<<Gadget("g3", "use", 1)>>)))
    /\ chatMessages # <<>>
    /\ chatMessages[Len(chatMessages)].className = "message player"

-----------------------------------------------------------------------------
(* Claims about the encounter (checked under SpecEncounter). *)

\* C16: currentEncounter changes in three cases only: a successful start
\* response sets it to the response's encounter, a successful choice
\* response that is not game over and carries next_encounter sets it to
\* that, restart makes it absent; every other event leaves it as it was.
C16_EncounterFrame ==
    [][LET type == lastEvent'.type
           data == Get(lastEvent'.data)
           new == gameState'.currentEncounter
       IN  IF type = "startOk" THEN new = data.encounter
           ELSE IF /\ type \in {"choiceOk", "gameOver"}
                   /\ ~data.game_over
                   /\ IsSome(data.next_encounter)
                THEN new = data.next_encounter
           ELSE IF type = "restart" THEN new = None
           ELSE new = gameState.currentEncounter]_vars

\* a choice response has replaced the encounter of the live session
C16_Witness ==
    /\ lastEvent.type = "choiceOk"
    /\ Get(lastEvent.data).next_encounter = Some("e2")
    /\ gameState.currentEncounter = Some("e2")
    /\ IsSome(gameState.sessionId)

-----------------------------------------------------------------------------
(* Claims about restart, the views and the live session (checked under Spec). *)

\* C17: restart makes the whole Session absent, empties the transcript,
\* shows the welcome view and enables the start control; after it nothing
\* of the session before enters the transcript: not a bubble whose timer
\* fires later, not an entry of a response to a choice of that session.
C17_RestartClears ==
    [][/\ lastEvent'.type = "restart" =>
             /\ gameState' = NoSession
             /\ chatMessages' = <<>>
             /\ welcomeScreen' = "block"
             /\ ~startBtnDisabled'
       /\ lastEvent'.type = "timer" => chatMessages' = chatMessages
       /\ StaleChoiceResponse => chatMessages' = chatMessages]_vars

\* C18: whenever the playing view is shown, a session is live and no choice
\* request is in flight, the input field and the send control are enabled
\* (so also after game over, restart and a new successful start).
C18_CanSubmitWhenPlaying ==
    (gameScreen = "block" /\ IsSome(gameState.sessionId) /\ choiceFetches = <<>>)
        => ~chatInputDisabled /\ ~sendBtnDisabled

Views == <<welcomeScreen, gameScreen, gameOverScreen>>

WelcomeView == <<"block", "none", "none">>
PlayingView == <<"none", "block", "none">>
GameOverView == <<"none", "none", "block">>

OneView == Views \in {WelcomeView, PlayingView, GameOverView}

\* C19: in every reachable state exactly one of the three views is shown,
\* and the view changes only from welcome to playing on a successful start,
\* from playing to game over on a choice response with game_over, and from
\* game over to welcome on restart.
C19_OneViewCycle ==
    [][/\ OneView /\ OneView'
       /\ Views' # Views =>
             \/ /\ Views = WelcomeView /\ Views' = PlayingView
                /\ lastEvent'.type = "startOk"
             \/ /\ Views = PlayingView /\ Views' = GameOverView
                /\ lastEvent'.type = "gameOver"
             \/ /\ Views = GameOverView /\ Views' = WelcomeView
                /\ lastEvent'.type = "restart"]_vars

\* C20: while a session is live the start control is disabled, a successful
\* start never replaces a live session, and a choice request is issued only
\* while a session is live: sendChoice without one issues no request and
\* appends no player entry.
C20_LiveSessionGuards ==
    [][/\ IsSome(gameState'.sessionId) => startBtnDisabled'
       /\ lastEvent'.type = "startOk" => ~IsSome(gameState.sessionId)
       /\ lastEvent'.type = "send" => IsSome(gameState.sessionId)
       /\ Len(choiceFetches') > Len(choiceFetches) => IsSome(gameState.sessionId)
       /\ lastEvent'.type = "sendNoSession" =>
             /\ choiceFetches' = choiceFetches
             /\ chatMessages' = chatMessages]_vars

=============================================================================
